---- MODULE Spec2Model ----
(***************************************************************************)
(* A model of camera/capture.c: a V4L2 memory-mapped capture program.      *)
(* main() runs open_device, init_device (with init_mmap), start_capturing, *)
(* mainloop (select / read_frame / process_image / dump_ppm),              *)
(* stop_capturing, uninit_device and close_device in sequence.  The        *)
(* program is single threaded; pc is the position of main().  The kernel   *)
(* (the V4L2 driver, select, open, write, mmap) is the environment: every  *)
(* system call's outcome is drawn from the outcomes the call can have.     *)
(***************************************************************************)
EXTENDS Integers, Sequences, FiniteSets, TLC

(***************************************************************************)
(* Program constants.                                                      *)
(***************************************************************************)
HRES == 320
VRES == 240
EXIT_FAILURE == 1
EXIT_SUCCESS == 0
ABORT_STATUS == 134
NO_FD == -1
REQ_COUNT == 6
SELECT_TIMEOUT_SEC == 2

(***************************************************************************)
(* Bounds of the model.                                                    *)
(*   frame_count     the frame budget (30 in the source, scaled down)      *)
(*   MaxGrant        the largest buffer count VIDIOC_REQBUFS hands back    *)
(*   MaxWriteFaults  write(2) calls of one run that return -1, 0 or short  *)
(*   MaxGroups       4-byte groups of a buffer in the conversion check     *)
(***************************************************************************)
frame_count == 2
MaxGrant == 3
MaxWriteFaults == 1
MaxGroups == 2

VARIABLES
    pc,            \* position of main()
    exit_status,   \* <<>> while running, then <<status>> of the ended process
    stderr,        \* the diagnostic printed on stderr ("" while there is none)
    fd,            \* the device descriptor (NO_FD when not open)
    fmt,           \* fmt.fmt.pix: width, height, pixelformat, bytesperline, sizeimage
    req_count,     \* req.count after VIDIOC_REQBUFS
    n_buffers,     \* number of buffers mapped so far / in the pool
    mapped,        \* indices whose memory is mmap'ed
    i,             \* loop index of start_capturing / uninit_device
    Queued,        \* indices the driver owns
    Filled,        \* indices dequeued by the application and not requeued
    streaming,     \* TRUE between VIDIOC_STREAMON and VIDIOC_STREAMOFF
    count,         \* mainloop's remaining-frame counter
    r,             \* select: the fds and timeout passed, ret, errno, tv after
    buf,           \* read_frame's struct v4l2_buffer: index, bytesused
    rf_ret,        \* last return value of read_frame
    framecnt,      \* the global frame counter
    dump,          \* dump_ppm's locals: size, tag, dumpfd, written, total
    files,         \* the output files: path -> tag, header, payload written
    ppm_dumpname,  \* char ppm_dumpname[]: the bytes of the path buffer
    write_faults,  \* write(2) calls so far that did not write everything
    hist,          \* history: frames returned 1, dequeues, requeues, sleeps
    conv           \* the conversion loop of process_image on buffer bytes

vars == <<pc, exit_status, stderr, fd, fmt, req_count, n_buffers, mapped, i,
          Queued, Filled, streaming, count, r, buf, rf_ret, framecnt, dump,
          files, ppm_dumpname, write_faults, hist, conv>>

(***************************************************************************)
(* The format descriptor.                                                  *)
(***************************************************************************)
PixelFormats == {"YUYV", "RGB24", "MJPG"}

\* Geometries VIDIOC_S_FMT may hand back for the requested HRES x VRES.
Geometries == {<<HRES, VRES>>, <<640, 480>>}

\* Row paddings a driver may add to a packed row.
StridePads == {64}

\* Bytes per pixel of a packed format as the driver lays it out.
BytesPerPixel(pf) == CASE pf = "YUYV" -> 2 [] pf = "RGB24" -> 3 [] OTHER -> 1

\* bytesperline values a driver reports: unset, packed, padded.
DriverBytesPerLine(w, pf) ==
    IF pf = "MJPG" THEN {0}
    ELSE {0, w * BytesPerPixel(pf)}
           \cup {w * BytesPerPixel(pf) + pad : pad \in StridePads}

\* sizeimage values a driver reports: unset, or stride * height.
DriverSizeImage(w, h, pf, bpl) ==
    IF pf = "MJPG" THEN {w * h}
    ELSE {0, (IF bpl = 0 THEN w * BytesPerPixel(pf) ELSE bpl) * h}

CLEAR_fmt ==
    [width |-> 0, height |-> 0, pixelformat |-> "NONE",
     bytesperline |-> 0, sizeimage |-> 0]

\* init_device's "buggy driver paranoia" on the descriptor the driver filled.
Paranoia(f) ==
    LET min1 == f.width * 2
        bpl  == IF f.bytesperline < min1 THEN min1 ELSE f.bytesperline
        min2 == bpl * f.height
        si   == IF f.sizeimage < min2 THEN min2 ELSE f.sizeimage
    IN  [f EXCEPT !.bytesperline = bpl, !.sizeimage = si]

(***************************************************************************)
(* Termination.                                                            *)
(***************************************************************************)
\* exit(status): the process ends; nothing else changes.
Exit(status) ==
    /\ pc' = "exited"
    /\ exit_status' = <<status>>

\* Mutant: errno_exit prints and returns to its caller.
errno_exit_returns(s) ==
    /\ stderr' = s
    /\ UNCHANGED <<pc, exit_status>>

\* errno_exit(s): prints s with errno on stderr and exits with EXIT_FAILURE.
errno_exit(s) ==
    /\ stderr' = s
    /\ Exit(EXIT_FAILURE)

\* fprintf(stderr, msg); exit(EXIT_FAILURE);
fprintf_exit(msg) ==
    /\ stderr' = msg
    /\ Exit(EXIT_FAILURE)

\* abort() of a failed assert: the process dies on SIGABRT.
assert_fail ==
    /\ stderr' = "Assertion failed"
    /\ Exit(ABORT_STATUS)

(***************************************************************************)
(* C strings: a char array is a sequence of one-character strings, the     *)
(* terminator is NUL; offsets are 0-based as in the source, the sequences  *)
(* are 1-based.                                                            *)
(***************************************************************************)
NUL == ""

\* char ppm_dumpname[]="frames/test00000000.ppm"; with its terminator.
ppm_dumpname_init ==
    <<"f", "r", "a", "m", "e", "s", "/", "t", "e", "s", "t",
      "0", "0", "0", "0", "0", "0", "0", "0", ".", "p", "p", "m", NUL>>

\* The length of the string that starts at offset at of b.
strlen(b, at) ==
    CHOOSE n \in 0 .. (Len(b) - at - 1) :
        /\ b[at + n + 1] = NUL
        /\ \A m \in 0 .. (n - 1) : b[at + m + 1] # NUL

\* The string a char array holds: the bytes before the first NUL.
CString(b) == SubSeq(b, 1, strlen(b, 0))

Digit(d) == <<"0", "1", "2", "3", "4", "5", "6", "7", "8", "9">>[d + 1]

RECURSIVE Decimal(_)
\* The decimal digits of a non-negative number.
Decimal(n) ==
    IF n < 10 THEN <<Digit(n)>> ELSE Decimal(n \div 10) \o <<Digit(n % 10)>>

RECURSIVE ZeroPad(_, _)
\* Zeros in front of str up to the width.
ZeroPad(str, width) ==
    IF Len(str) >= width THEN str ELSE ZeroPad(<<"0">> \o str, width)

\* The text "%08d" prints for a non-negative tag.
Format08d(tag) == ZeroPad(Decimal(tag), 8)

\* snprintf(&b[at], size, ...) of the text str: at most size-1 characters
\* of it and a NUL.
snprintf(b, at, size, str) ==
    LET n == IF Len(str) < size - 1 THEN Len(str) ELSE size - 1
    IN  [k \in 1 .. Len(b) |->
            IF k - 1 \in at .. (at + n - 1) THEN str[k - at]
            ELSE IF k - 1 = at + n THEN NUL
            ELSE b[k]]

\* strncat(&b[at], src, n): at most n characters of src behind the string
\* that starts at offset at, and a NUL.
strncat(b, at, src, n) ==
    LET end == at + strlen(b, at)
        m   == IF Len(src) < n THEN Len(src) ELSE n
    IN  [k \in 1 .. Len(b) |->
            IF k - 1 \in end .. (end + m - 1) THEN src[k - end]
            ELSE IF k - 1 = end + m THEN NUL
            ELSE b[k]]

\* The name dump_ppm builds in ppm_dumpname:
\*   snprintf(&ppm_dumpname[4], 9, "%08d", tag);
\*   strncat(&ppm_dumpname[12], ".ppm", 5);
dump_ppm_name(b, tag) ==
    strncat(snprintf(b, 4, 9, Format08d(tag)), 12, <<".", "p", "p", "m">>, 5)

(***************************************************************************)
(* The state after the static initialisers, before main() runs.            *)
(***************************************************************************)
NoDump == [size |-> 0, tag |-> 0, dumpfd |-> NO_FD, written |-> 0, total |-> 0]

\* History kept for the properties: read_frame calls that returned 1,
\* successful dequeues, requeues, pacing sleeps, whether process_image has
\* returned for the buffer held, the errno of a VIDIOC_DQBUF that made
\* read_frame return 0 (until mainloop has acted on that return), whether a
\* payload write made no progress.
NoHist == [ok |-> 0, dq |-> 0, rq |-> 0, sleeps |-> 0, processed |-> FALSE,
           dqerr |-> "none", noprogress |-> FALSE]

\* mainloop's locals of the wait before the first select.
NoSelect == [fds |-> {}, timeout |-> [tv_sec |-> 0, tv_usec |-> 0],
             ret |-> 0, errno |-> "none", tv |-> [tv_sec |-> 0, tv_usec |-> 0]]

ConvIdle == [pc |-> "idle", p |-> <<>>, size |-> 0, i |-> 0, newi |-> 0,
             bigbuffer |-> <<>>, newsize |-> 0, reads |-> {}]

ProgramInit ==
    /\ exit_status = <<>>
    /\ stderr = ""
    /\ fd = NO_FD
    /\ fmt = CLEAR_fmt
    /\ req_count = 0
    /\ n_buffers = 0
    /\ mapped = {}
    /\ i = 0
    /\ Queued = {}
    /\ Filled = {}
    /\ streaming = FALSE
    /\ count = 0
    /\ r = NoSelect
    /\ buf = [index |-> 0, bytesused |-> 0]
    /\ rf_ret = 0
    /\ framecnt = 0
    /\ dump = NoDump
    /\ files = <<>>
    /\ ppm_dumpname = ppm_dumpname_init
    /\ write_faults = 0
    /\ hist = NoHist

Init ==
    /\ pc = "open_device"
    /\ ProgramInit
    /\ conv = ConvIdle

(***************************************************************************)
(* open_device: stat, S_ISCHR, open.                                       *)
(***************************************************************************)
open_device ==
    /\ pc = "open_device"
    /\ \E outcome \in {"Cannot identify", "is no device", "Cannot open",
                       "ok"} :
          IF outcome = "ok"
          THEN /\ fd' = 3
               /\ pc' = "init_device"
               /\ UNCHANGED <<exit_status, stderr>>
          ELSE /\ fprintf_exit(outcome)
               /\ UNCHANGED fd
    /\ UNCHANGED <<fmt, req_count, n_buffers, mapped, i, Queued, Filled,
                   streaming, count, r, buf, rf_ret, framecnt, dump, files,
                   ppm_dumpname, write_faults, hist, conv>>

(***************************************************************************)
(* init_device up to the call of init_mmap: VIDIOC_QUERYCAP and the        *)
(* capability tests, cropping (its failures are ignored), the format       *)
(* negotiation and the stride / size correction.                           *)
(***************************************************************************)
\* The descriptor the driver leaves in fmt after VIDIOC_S_FMT, asked for
\* HRES x VRES YUYV (force_format is 1 and never changed, so VIDIOC_G_FMT is
\* not reached): the driver may adjust the geometry and the pixel format.
DriverFormat(g, pf, bpl, si) ==
    [width |-> g[1], height |-> g[2], pixelformat |-> pf,
     bytesperline |-> bpl, sizeimage |-> si]

init_device ==
    /\ pc = "init_device"
    /\ \E outcome \in {"VIDIOC_QUERYCAP", "is no video capture device",
                       "does not support streaming i/o", "VIDIOC_S_FMT",
                       "ok"} :
          IF outcome = "ok"
          THEN /\ \E g \in Geometries, pf \in PixelFormats :
                  \E bpl \in DriverBytesPerLine(g[1], pf) :
                  \E si \in DriverSizeImage(g[1], g[2], pf, bpl) :
                     fmt' = Paranoia(DriverFormat(g, pf, bpl, si))
               /\ pc' = "init_mmap"
               /\ UNCHANGED <<exit_status, stderr>>
          ELSE /\ IF outcome \in {"VIDIOC_QUERYCAP", "VIDIOC_S_FMT"}
                  THEN errno_exit(outcome)
                  ELSE fprintf_exit(outcome)
               /\ UNCHANGED fmt
    /\ UNCHANGED <<fd, req_count, n_buffers, mapped, i, Queued, Filled,
                   streaming, count, r, buf, rf_ret, framecnt, dump, files,
                   ppm_dumpname, write_faults, hist, conv>>

(***************************************************************************)
(* init_mmap: VIDIOC_REQBUFS, the count test, calloc, then one             *)
(* VIDIOC_QUERYBUF and mmap per granted buffer.                            *)
(***************************************************************************)
\* Mutant: the buffer-count test accepts a single buffer.
InsufficientBuffers_below_one(granted) == granted < 1

\* if (req.count < 2): too few buffers to stream.
InsufficientBuffers(granted) == granted < 2

init_mmap ==
    /\ pc = "init_mmap"
    /\ \E outcome \in {"does not support memory mapping", "VIDIOC_REQBUFS",
                       "calloc_fails", "ok"} :
       \E granted \in 0..MaxGrant :
          IF outcome \in {"does not support memory mapping", "VIDIOC_REQBUFS"}
          THEN /\ IF outcome = "VIDIOC_REQBUFS"
                  THEN errno_exit(outcome)
                  ELSE fprintf_exit(outcome)
               /\ UNCHANGED <<req_count, n_buffers>>
          ELSE /\ req_count' = granted
               /\ IF InsufficientBuffers(granted) \/ outcome = "calloc_fails"
                  THEN /\ fprintf_exit(IF InsufficientBuffers(granted)
                                       THEN "Insufficient buffer memory"
                                       ELSE "Out of memory")
                       /\ UNCHANGED n_buffers
                  ELSE /\ n_buffers' = 0
                       /\ pc' = "init_mmap_loop"
                       /\ UNCHANGED <<exit_status, stderr>>
    /\ UNCHANGED <<fd, fmt, mapped, i, Queued, Filled, streaming, count, r,
                   buf, rf_ret, framecnt, dump, files, ppm_dumpname,
                   write_faults, hist, conv>>

init_mmap_loop ==
    /\ pc = "init_mmap_loop"
    /\ IF n_buffers < req_count
       THEN \E outcome \in {"VIDIOC_QUERYBUF", "mmap", "ok"} :
               IF outcome = "ok"
               THEN /\ mapped' = mapped \cup {n_buffers}
                    /\ n_buffers' = n_buffers + 1
                    /\ UNCHANGED <<pc, exit_status, stderr>>
               ELSE /\ errno_exit(outcome)
                    /\ UNCHANGED <<mapped, n_buffers>>
       ELSE /\ pc' = "start_capturing"
            /\ UNCHANGED <<exit_status, stderr, mapped, n_buffers>>
    /\ i' = IF n_buffers < req_count THEN i ELSE 0
    /\ UNCHANGED <<fd, fmt, req_count, Queued, Filled, streaming, count, r,
                   buf, rf_ret, framecnt, dump, files, ppm_dumpname,
                   write_faults, hist, conv>>

(***************************************************************************)
(* start_capturing: VIDIOC_QBUF of every index, then VIDIOC_STREAMON.      *)
(* The ownership sets follow the indices the application passes; the model *)
(* does not lean on the driver refusing a bad index.                       *)
(***************************************************************************)
\* Mutant: the loop stops one index short of the pool.
start_capturing_more_short(idx) == idx < n_buffers - 1

\* Mutant: the loop runs one index past the pool.
start_capturing_more_inclusive(idx) == idx <= n_buffers

\* The loop test of start_capturing's for loop.
start_capturing_more(idx) == idx < n_buffers

start_capturing_qbuf ==
    /\ pc = "start_capturing"
    /\ start_capturing_more(i)
    /\ \E outcome \in {"qbuf_fails", "ok"} :
          IF outcome = "ok"
          THEN /\ Queued' = Queued \cup {i}
               /\ i' = i + 1
               /\ UNCHANGED <<pc, exit_status, stderr>>
          ELSE /\ errno_exit("VIDIOC_QBUF")
               /\ UNCHANGED <<Queued, i>>
    /\ UNCHANGED <<fd, fmt, req_count, n_buffers, mapped, Filled, streaming,
                   count, r, buf, rf_ret, framecnt, dump, files, ppm_dumpname,
                   write_faults, hist, conv>>

start_capturing_streamon ==
    /\ pc = "start_capturing"
    /\ ~start_capturing_more(i)
    /\ \E outcome \in {"streamon_fails", "ok"} :
          IF outcome = "ok"
          THEN /\ streaming' = TRUE
               /\ pc' = "mainloop"
               /\ UNCHANGED <<exit_status, stderr>>
          ELSE /\ errno_exit("VIDIOC_STREAMON")
               /\ UNCHANGED streaming
    /\ UNCHANGED <<fd, fmt, req_count, n_buffers, mapped, i, Queued, Filled,
                   count, r, buf, rf_ret, framecnt, dump, files, ppm_dumpname,
                   write_faults, hist, conv>>

(***************************************************************************)
(* mainloop: count = frame_count; while (count > 0) { for (;;) { select;   *)
(* read_frame; ... } }.                                                    *)
(***************************************************************************)
\* Where control goes once the inner for (;;) is left or the outer while is
\* tested: back to select while frames remain, out of mainloop otherwise.
mainloop_next(c) == IF c > 0 THEN "select" ELSE "stop_capturing"

mainloop_enter ==
    /\ pc = "mainloop"
    /\ count' = frame_count
    /\ pc' = mainloop_next(frame_count)
    /\ UNCHANGED <<exit_status, stderr, fd, fmt, req_count, n_buffers, mapped,
                   i, Queued, Filled, streaming, r, buf, rf_ret, framecnt,
                   dump, files, ppm_dumpname, write_faults, hist, conv>>

\* Mutant: tv is set once before the loop, a retry passes what is left.
select_tv_left_over == r.tv

\* tv.tv_sec = 2; tv.tv_usec = 0; in every pass of the for (;;) loop.
select_tv == [tv_sec |-> SELECT_TIMEOUT_SEC, tv_usec |-> 0]

\* What select leaves in tv (Linux writes the time not slept): nothing
\* after a timeout, the timeout itself when the call failed at once, and
\* otherwise (here: one second gone) less than the timeout.
TimeLeft(timeout, res) ==
    CASE res.ret = 0 -> [tv_sec |-> 0, tv_usec |-> 0]
      [] res.ret = -1 /\ res.errno # "EINTR" -> timeout
      [] OTHER -> [timeout EXCEPT
                      !.tv_sec = IF @ > 0 THEN @ - 1 ELSE 0]

\* FD_ZERO; FD_SET(fd); tv = 2 s; r = select(fd + 1, &fds, NULL, NULL, &tv).
mainloop_select ==
    /\ pc = "select"
    /\ \E res \in { [ret |-> -1, errno |-> "EINTR"],
                    [ret |-> -1, errno |-> "EBADF"],
                    [ret |-> 0, errno |-> "none"],
                    [ret |-> 1, errno |-> "none"] } :
          r' = [fds |-> {fd}, timeout |-> select_tv,
                ret |-> res.ret, errno |-> res.errno,
                tv |-> TimeLeft(select_tv, res)]
    /\ pc' = "select_check"
    /\ UNCHANGED <<exit_status, stderr, fd, fmt, req_count, n_buffers, mapped,
                   i, Queued, Filled, streaming, count, buf, rf_ret, framecnt,
                   dump, files, ppm_dumpname, write_faults, hist, conv>>

\* Mutant: a timeout is retried like an interrupted wait.
mainloop_select_check_retries_timeout ==
    /\ pc = "select_check"
    /\ IF r.ret = -1 /\ r.errno # "EINTR"
       THEN errno_exit("select")
       ELSE /\ pc' = IF r.ret = 1 THEN "read_frame" ELSE "select"
            /\ UNCHANGED <<exit_status, stderr>>
    /\ UNCHANGED <<fd, fmt, req_count, n_buffers, mapped, i, Queued, Filled,
                   streaming, count, r, buf, rf_ret, framecnt, dump, files,
                   ppm_dumpname, write_faults, hist, conv>>

\* The tests on r that follow select.
mainloop_select_check ==
    /\ pc = "select_check"
    /\ IF r.ret = -1
       THEN IF r.errno = "EINTR"
            THEN /\ pc' = "select"
                 /\ UNCHANGED <<exit_status, stderr>>
            ELSE errno_exit("select")
       ELSE IF r.ret = 0
            THEN fprintf_exit("select timeout")
            ELSE /\ pc' = "read_frame"
                 /\ UNCHANGED <<exit_status, stderr>>
    /\ UNCHANGED <<fd, fmt, req_count, n_buffers, mapped, i, Queued, Filled,
                   streaming, count, r, buf, rf_ret, framecnt, dump, files,
                   ppm_dumpname, write_faults, hist, conv>>

(***************************************************************************)
(* read_frame: VIDIOC_DQBUF, the errno switch, the assert.                 *)
(***************************************************************************)
\* Byte counts the driver may report for a dequeued buffer: the whole image
\* with its stride padding, the packed pixels, or a short frame.
BytesUsedChoices ==
    LET packed == fmt.width * fmt.height * BytesPerPixel(fmt.pixelformat)
    IN  {fmt.sizeimage, packed, packed \div 2}

\* Mutant: the buffer goes back to the driver before it is processed.
read_frame_requeues_first == "requeue"

\* What read_frame does with a dequeued buffer first: process_image, and
\* only then the requeue.
read_frame_after_dqbuf == "process_image"

read_frame_dqbuf ==
    /\ pc = "read_frame"
    /\ \E outcome \in {"EAGAIN", "EIO", "ENODEV", "ok"} :
          CASE outcome \in {"EAGAIN", "EIO"} ->
                 /\ rf_ret' = 0
                 /\ pc' = "after_read_frame"
                 /\ hist' = [hist EXCEPT !.dqerr = outcome]
                 /\ UNCHANGED <<exit_status, stderr, buf, Queued, Filled>>
            [] outcome = "ENODEV" ->
                 /\ errno_exit("VIDIOC_DQBUF")
                 /\ UNCHANGED <<rf_ret, buf, Queued, Filled, hist>>
            [] outcome = "ok" ->
                 /\ streaming
                 /\ \E idx \in Queued, used \in BytesUsedChoices :
                       /\ buf' = [index |-> idx, bytesused |-> used]
                       /\ Queued' = Queued \ {idx}
                       /\ Filled' = Filled \cup {idx}
                       /\ IF idx < n_buffers
                          THEN /\ pc' = read_frame_after_dqbuf
                               /\ UNCHANGED <<exit_status, stderr>>
                          ELSE assert_fail
                 /\ hist' = [hist EXCEPT !.dq = @ + 1, !.processed = FALSE]
                 /\ UNCHANGED rf_ret
    /\ UNCHANGED <<fd, fmt, req_count, n_buffers, mapped, i, streaming, count,
                   r, framecnt, dump, files, ppm_dumpname, write_faults, conv>>

(***************************************************************************)
(* process_image: framecnt++, then by pixel format the YUYV -> RGB         *)
(* conversion into bigbuffer and dump_ppm of (size*6)/4 bytes, or dump_ppm *)
(* of the buffer as it is, or nothing.                                     *)
(***************************************************************************)
\* The byte count process_image hands to dump_ppm after the conversion.
\* Here the conversion is taken by its sizes; its loop over the bytes is
\* conv_step / conv_done below.
NewSize(size) == (size * 6) \div 4

\* Mutant: dump_ppm is handed the counter as it was before framecnt++.
process_image_tags_before_increment ==
    /\ pc = "process_image"
    /\ framecnt' = framecnt + 1
    /\ CASE fmt.pixelformat = "YUYV" ->
              /\ dump' = [NoDump EXCEPT !.size = NewSize(buf.bytesused),
                                        !.tag = framecnt]
              /\ pc' = "dump_ppm"
              /\ UNCHANGED hist
         [] fmt.pixelformat = "RGB24" ->
              /\ dump' = [NoDump EXCEPT !.size = buf.bytesused,
                                        !.tag = framecnt]
              /\ pc' = "dump_ppm"
              /\ UNCHANGED hist
         [] OTHER ->
              /\ pc' = "requeue"
              /\ hist' = [hist EXCEPT !.processed = TRUE]
              /\ UNCHANGED dump
    /\ UNCHANGED <<exit_status, stderr, fd, fmt, req_count, n_buffers, mapped,
                   i, Queued, Filled, streaming, count, r, buf, rf_ret, files,
                   ppm_dumpname, write_faults, conv>>

process_image ==
    /\ pc = "process_image"
    /\ framecnt' = framecnt + 1
    /\ CASE fmt.pixelformat = "YUYV" ->
              /\ dump' = [NoDump EXCEPT !.size = NewSize(buf.bytesused),
                                        !.tag = framecnt']
              /\ pc' = "dump_ppm"
              /\ UNCHANGED hist
         [] fmt.pixelformat = "RGB24" ->
              /\ dump' = [NoDump EXCEPT !.size = buf.bytesused,
                                        !.tag = framecnt']
              /\ pc' = "dump_ppm"
              /\ UNCHANGED hist
         [] OTHER ->
              /\ pc' = "requeue"
              /\ hist' = [hist EXCEPT !.processed = TRUE]
              /\ UNCHANGED dump
    /\ UNCHANGED <<exit_status, stderr, fd, fmt, req_count, n_buffers, mapped,
                   i, Queued, Filled, streaming, count, r, buf, rf_ret, files,
                   ppm_dumpname, write_faults, conv>>

(***************************************************************************)
(* dump_ppm: build the name from the tag, open, write the header, then     *)
(* do { written = write(dumpfd, p, size); total += written; }              *)
(* while (total < size); close.                                            *)
(***************************************************************************)
\* char ppm_header[]: the geometry in it is spelled by HRES_STR and VRES_STR.
ppm_header == [magic |-> "P6", width |-> HRES, height |-> VRES, maxval |-> 255]

\* TRUE while a write(2) may still be modelled as failing or short.
MayFault == write_faults < MaxWriteFaults

\* What write(dumpfd, p, size) may return: -1 on a bad descriptor; else
\* everything, or (within the bound) an error, nothing, or a part.
WriteOutcomes(dumpfd, size) ==
    IF dumpfd = NO_FD
    THEN IF MayFault THEN {-1} ELSE {}
    ELSE {size} \cup (IF MayFault THEN {-1, 0, size \div 2} ELSE {})

dump_ppm_open ==
    /\ pc = "dump_ppm"
    /\ ppm_dumpname' = dump_ppm_name(ppm_dumpname, dump.tag)
    /\ \E opened \in BOOLEAN, header_written \in BOOLEAN :
          /\ header_written => opened
          /\ (opened /\ ~header_written) => MayFault
          /\ dump' = [dump EXCEPT !.dumpfd = IF opened THEN 4 ELSE NO_FD,
                                  !.written = IF header_written THEN 1 ELSE -1,
                                  !.total = 0]
          /\ files' = IF opened
                      THEN (CString(ppm_dumpname') :>
                               [tag |-> dump.tag,
                                header |-> ppm_header,
                                header_written |-> header_written,
                                payload |-> 0,
                                segments |-> <<>>]) @@ files
                      ELSE files
          /\ write_faults' = IF opened /\ ~header_written
                             THEN write_faults + 1 ELSE write_faults
    /\ pc' = "dump_write"
    /\ UNCHANGED <<exit_status, stderr, fd, fmt, req_count, n_buffers, mapped,
                   i, Queued, Filled, streaming, count, r, buf, rf_ret,
                   framecnt, hist, conv>>

\* The bytes a write call of the loop is handed: write(dumpfd, p, size),
\* from the start of p and size of them, whatever total has reached.
write_request(total, size) == [from |-> 0, count |-> size]

dump_ppm_write ==
    /\ pc = "dump_write"
    /\ LET req == write_request(dump.total, dump.size)
       IN  \E w \in WriteOutcomes(dump.dumpfd, req.count) :
             /\ dump' = [dump EXCEPT !.written = w, !.total = @ + w]
             /\ files' = IF w > 0
                         THEN [files EXCEPT
                                  ![CString(ppm_dumpname)].payload = @ + w,
                                  ![CString(ppm_dumpname)].segments =
                                      Append(@, [from |-> req.from, len |-> w])]
                         ELSE files
             /\ write_faults' = IF w = dump.size /\ dump.dumpfd # NO_FD
                                THEN write_faults ELSE write_faults + 1
             /\ hist' = IF w <= 0 /\ dump.total + w < dump.size
                        THEN [hist EXCEPT !.noprogress = TRUE] ELSE hist
    /\ pc' = "dump_check"
    /\ UNCHANGED <<ppm_dumpname, exit_status, stderr, fd, fmt, req_count,
                   n_buffers, mapped, i, Queued, Filled, streaming, count, r,
                   buf, rf_ret, framecnt, conv>>

\* The loop test, and after the loop printf, close and the return through
\* process_image to read_frame.
dump_ppm_check ==
    /\ pc = "dump_check"
    /\ IF dump.total < dump.size
       THEN /\ pc' = "dump_write"
            /\ UNCHANGED <<dump, hist>>
       ELSE /\ pc' = "requeue"
            /\ dump' = [dump EXCEPT !.dumpfd = NO_FD]
            /\ hist' = [hist EXCEPT !.processed = TRUE]
    /\ UNCHANGED <<exit_status, stderr, fd, fmt, req_count, n_buffers, mapped,
                   i, Queued, Filled, streaming, count, r, buf, rf_ret,
                   framecnt, files, ppm_dumpname, write_faults, conv>>

(***************************************************************************)
(* read_frame, after process_image: VIDIOC_QBUF of buf, return 1.          *)
(***************************************************************************)
\* Mutant: the index after the dequeued one is handed back.
requeue_index_next == (buf.index + 1) % n_buffers

\* The index read_frame hands back to the driver.
requeue_index == buf.index

read_frame_qbuf ==
    /\ pc = "requeue"
    /\ \E outcome \in {"qbuf_fails", "ok"} :
          IF outcome = "ok"
          THEN /\ Queued' = Queued \cup {requeue_index}
               /\ Filled' = Filled \ {requeue_index}
               /\ rf_ret' = 1
               /\ hist' = [hist EXCEPT !.rq = @ + 1, !.ok = @ + 1]
               /\ pc' = "after_read_frame"
               /\ UNCHANGED <<exit_status, stderr>>
          ELSE /\ errno_exit("VIDIOC_QBUF")
               /\ UNCHANGED <<Queued, Filled, rf_ret, hist>>
    /\ UNCHANGED <<fd, fmt, req_count, n_buffers, mapped, i, streaming, count,
                   r, buf, framecnt, dump, files, ppm_dumpname, write_faults,
                   conv>>

(***************************************************************************)
(* mainloop, after read_frame returned.                                    *)
(***************************************************************************)
\* Mutant: the counter also drops when read_frame returned 0.
mainloop_after_read_frame_counts_retries ==
    /\ pc = "after_read_frame"
    /\ count' = count - 1
    /\ hist' = IF rf_ret # 0 THEN [hist EXCEPT !.sleeps = @ + 1]
               ELSE [hist EXCEPT !.dqerr = "none"]
    /\ pc' = mainloop_next(count')
    /\ UNCHANGED <<exit_status, stderr, fd, fmt, req_count, n_buffers, mapped,
                   i, Queued, Filled, streaming, r, buf, rf_ret, framecnt,
                   dump, files, ppm_dumpname, write_faults, conv>>

\* Mutant: a frame is counted without the pacing delay.
mainloop_after_read_frame_skips_pacing ==
    /\ pc = "after_read_frame"
    /\ IF rf_ret # 0
       THEN /\ count' = count - 1
            /\ pc' = mainloop_next(count')
            /\ UNCHANGED hist
       ELSE /\ pc' = IF count <= 0 THEN mainloop_next(count) ELSE "select"
            /\ hist' = [hist EXCEPT !.dqerr = "none"]
            /\ UNCHANGED count
    /\ UNCHANGED <<exit_status, stderr, fd, fmt, req_count, n_buffers, mapped,
                   i, Queued, Filled, streaming, r, buf, rf_ret, framecnt,
                   dump, files, ppm_dumpname, write_faults, conv>>

\* Mutant: the pacing delay is also applied when read_frame returned 0.
mainloop_after_read_frame_paces_retries ==
    /\ pc = "after_read_frame"
    /\ IF rf_ret # 0
       THEN /\ count' = count - 1
            /\ hist' = [hist EXCEPT !.sleeps = @ + 1]
            /\ pc' = mainloop_next(count')
       ELSE /\ pc' = IF count <= 0 THEN mainloop_next(count) ELSE "select"
            /\ hist' = [hist EXCEPT !.dqerr = "none", !.sleeps = @ + 1]
            /\ UNCHANGED count
    /\ UNCHANGED <<exit_status, stderr, fd, fmt, req_count, n_buffers, mapped,
                   i, Queued, Filled, streaming, r, buf, rf_ret, framecnt,
                   dump, files, ppm_dumpname, write_faults, conv>>

\* if (read_frame()) { nanosleep; count--; break; }  count is unsigned and
\* is above 0 here (the while test), so the decrement does not wrap.
mainloop_after_read_frame ==
    /\ pc = "after_read_frame"
    /\ IF rf_ret # 0
       THEN /\ count' = count - 1
            /\ hist' = [hist EXCEPT !.sleeps = @ + 1]
            /\ pc' = mainloop_next(count')
       ELSE /\ pc' = IF count <= 0 THEN mainloop_next(count) ELSE "select"
            /\ hist' = [hist EXCEPT !.dqerr = "none"]
            /\ UNCHANGED count
    /\ UNCHANGED <<exit_status, stderr, fd, fmt, req_count, n_buffers, mapped,
                   i, Queued, Filled, streaming, r, buf, rf_ret, framecnt,
                   dump, files, ppm_dumpname, write_faults, conv>>

(***************************************************************************)
(* stop_capturing, uninit_device, close_device and the end of main.        *)
(***************************************************************************)
\* VIDIOC_STREAMOFF takes every buffer out of the driver's queues.
stop_capturing ==
    /\ pc = "stop_capturing"
    /\ \E outcome \in {"streamoff_fails", "ok"} :
          IF outcome = "ok"
          THEN /\ streaming' = FALSE
               /\ Queued' = {}
               /\ i' = 0
               /\ pc' = "uninit_device"
               /\ UNCHANGED <<exit_status, stderr>>
          ELSE /\ errno_exit("VIDIOC_STREAMOFF")
               /\ UNCHANGED <<streaming, Queued, i>>
    /\ UNCHANGED <<fd, fmt, req_count, n_buffers, mapped, Filled, count, r,
                   buf, rf_ret, framecnt, dump, files, ppm_dumpname,
                   write_faults, hist, conv>>

uninit_device_ignores_munmap ==
    /\ pc = "uninit_device"
    /\ IF i < n_buffers
       THEN \E outcome \in {"munmap_fails", "ok"} :
               /\ mapped' = IF outcome = "ok" THEN mapped \ {i} ELSE mapped
               /\ i' = i + 1
               /\ UNCHANGED <<pc, exit_status, stderr>>
       ELSE /\ pc' = "close_device"
            /\ UNCHANGED <<exit_status, stderr, mapped, i>>
    /\ UNCHANGED <<fd, fmt, req_count, n_buffers, Queued, Filled, streaming,
                   count, r, buf, rf_ret, framecnt, dump, files, ppm_dumpname,
                   write_faults, hist, conv>>

uninit_device ==
    /\ pc = "uninit_device"
    /\ IF i < n_buffers
       THEN \E outcome \in {"munmap_fails", "ok"} :
               IF outcome = "ok"
               THEN /\ mapped' = mapped \ {i}
                    /\ i' = i + 1
                    /\ UNCHANGED <<pc, exit_status, stderr>>
               ELSE /\ errno_exit("munmap")
                    /\ UNCHANGED <<mapped, i>>
       ELSE /\ pc' = "close_device"
            /\ UNCHANGED <<exit_status, stderr, mapped, i>>
    /\ UNCHANGED <<fd, fmt, req_count, n_buffers, Queued, Filled, streaming,
                   count, r, buf, rf_ret, framecnt, dump, files, ppm_dumpname,
                   write_faults, hist, conv>>

\* close(fd), fd = -1, then main returns 0.
close_device ==
    /\ pc = "close_device"
    /\ \E outcome \in {"close_fails", "ok"} :
          IF outcome = "ok"
          THEN /\ fd' = NO_FD
               /\ Exit(EXIT_SUCCESS)
               /\ UNCHANGED stderr
          ELSE /\ errno_exit("close")
               /\ UNCHANGED fd
    /\ UNCHANGED <<fmt, req_count, n_buffers, mapped, i, Queued, Filled,
                   streaming, count, r, buf, rf_ret, framecnt, dump, files,
                   ppm_dumpname, write_faults, hist, conv>>

(***************************************************************************)
(* The conversion of process_image on the bytes of one buffer:             *)
(*   for (i = 0, newi = 0; i < size; i = i + 4, newi = newi + 6)           *)
(*       two yuv2rgb calls that store bigbuffer[newi .. newi+5];           *)
(*   dump_ppm(bigbuffer, (size*6)/4, ...).                                 *)
(* bigbuffer is the part of the scratch buffer written so far, a function  *)
(* from the indices stored to the bytes stored; reads is the set of the     *)
(* offsets of p read so far.                                               *)
(***************************************************************************)
\* unsigned char bigbuffer[(1280*960)]: the number of bytes of the scratch
\* buffer.
BIGBUFFER_SIZE == 1280 * 960

\* x >> 8 on int (an arithmetic shift): the floor of x / 256.
Shr8(x) == x \div 256

\* The store of an int into an unsigned char keeps the low 8 bits.
ToUChar(x) == x % 256

\* The clipping of yuv2rgb.
Clip(x) == IF x > 255 THEN 255 ELSE IF x < 0 THEN 0 ELSE x

yuv2rgb(y, u, v) ==
    LET c  == y - 16
        d  == u - 128
        e  == v - 128
        r1 == Shr8(298 * c + 409 * e + 128)
        g1 == Shr8(298 * c - 100 * d - 208 * e + 128)
        b1 == Shr8(298 * c + 516 * d + 128)
    IN  <<ToUChar(Clip(r1)), ToUChar(Clip(g1)), ToUChar(Clip(b1))>>

\* Mutant: the output index advances by one pixel instead of two.
NextNewi_one_pixel(newi) == newi + 3

\* The steps of the loop's two indices.
NextI(ci) == ci + 4
NextNewi(newi) == newi + 6

\* Mutant: the second pixel is computed from the first pixel's luma.
GroupRGB_first_luma_twice(p, ci) ==
    LET y_temp  == p[ci + 1]
        u_temp  == p[ci + 2]
        v_temp  == p[ci + 4]
    IN  yuv2rgb(y_temp, u_temp, v_temp) \o yuv2rgb(y_temp, u_temp, v_temp)

\* The six bytes one iteration stores, from the group at p[ci .. ci+3]
\* (p is 0-based in the source, 1-based here).
GroupRGB(p, ci) ==
    LET y_temp  == p[ci + 1]
        u_temp  == p[ci + 2]
        y2_temp == p[ci + 3]
        v_temp  == p[ci + 4]
    IN  yuv2rgb(y_temp, u_temp, v_temp) \o yuv2rgb(y2_temp, u_temp, v_temp)

\* The offsets into p (0-based, as in the source) one iteration reads:
\* pptr[i], pptr[i+1], pptr[i+2], pptr[i+3].
GroupOffsets(ci) == ci .. (ci + 3)

\* Sample 4-byte groups (y0, u, y1, v): black and white levels, the ends of
\* the byte range and neutral and extreme chroma.
GroupSamples ==
    { <<y0, u, y1, v>> : y0 \in {16, 255}, u \in {0, 128, 255},
                         y1 \in {0, 235}, v \in {0, 128, 255} }

RECURSIVE BuffersOf(_)
\* The buffers of exactly k sample groups.
BuffersOf(k) ==
    IF k = 0 THEN {<<>>}
    ELSE { b \o g : b \in BuffersOf(k - 1), g \in GroupSamples }

ConvInit ==
    /\ pc = "conversion"
    /\ ProgramInit
    /\ \E k \in 0..MaxGroups :
       \E p \in BuffersOf(k) :
       \E size \in {n \in 0..Len(p) : n > Len(p) - 4} :
          conv = [pc |-> "loop", p |-> p, size |-> size, i |-> 0, newi |-> 0,
                  bigbuffer |-> <<>>, newsize |-> 0, reads |-> {}]

conv_step ==
    /\ conv.pc = "loop"
    /\ conv.i < conv.size
    /\ LET rgb == GroupRGB(conv.p, conv.i)
           at  == conv.newi .. conv.newi + 5
       IN  conv' = [conv EXCEPT
                      !.bigbuffer =
                          [j \in (DOMAIN conv.bigbuffer) \cup at |->
                              IF j \in at THEN rgb[j - conv.newi + 1]
                              ELSE conv.bigbuffer[j]],
                      !.reads = @ \cup GroupOffsets(conv.i),
                      !.i = NextI(conv.i),
                      !.newi = NextNewi(conv.newi)]
    /\ UNCHANGED <<pc, exit_status, stderr, fd, fmt, req_count, n_buffers,
                   mapped, i, Queued, Filled, streaming, count, r, buf,
                   rf_ret, framecnt, dump, files, ppm_dumpname, write_faults,
                   hist>>

conv_done ==
    /\ conv.pc = "loop"
    /\ ~(conv.i < conv.size)
    /\ conv' = [conv EXCEPT !.pc = "done", !.newsize = NewSize(conv.size)]
    /\ UNCHANGED <<pc, exit_status, stderr, fd, fmt, req_count, n_buffers,
                   mapped, i, Queued, Filled, streaming, count, r, buf,
                   rf_ret, framecnt, dump, files, ppm_dumpname, write_faults,
                   hist>>

ConvNext ==
    \/ conv_step
    \/ conv_done

ConvSpec == ConvInit /\ [][ConvNext]_vars

Next ==
    \/ open_device
    \/ init_device
    \/ init_mmap
    \/ init_mmap_loop
    \/ start_capturing_qbuf
    \/ start_capturing_streamon
    \/ mainloop_enter
    \/ mainloop_select
    \/ mainloop_select_check
    \/ read_frame_dqbuf
    \/ process_image
    \/ dump_ppm_open
    \/ dump_ppm_write
    \/ dump_ppm_check
    \/ read_frame_qbuf
    \/ mainloop_after_read_frame
    \/ stop_capturing
    \/ uninit_device
    \/ close_device

Spec == Init /\ [][Next]_vars

\* The program under a scheduler that keeps running it (it takes a step
\* whenever it has one), with signals that do not interrupt every wait for
\* ever: a select call that returns something else than EINTR comes again
\* and again while select is called again and again.
select_not_interrupted == mainloop_select /\ r'.errno # "EINTR"

LiveSpec ==
    /\ Init
    /\ [][Next]_vars
    /\ WF_vars(Next)
    /\ SF_vars(select_not_interrupted)

(***************************************************************************)
(* Positions of main().                                                    *)
(***************************************************************************)
InMainloop ==
    pc \in {"select", "select_check", "read_frame", "process_image",
            "dump_ppm", "dump_write", "dump_check", "requeue",
            "after_read_frame"}

MainloopReturned == pc \in {"stop_capturing", "uninit_device", "close_device"}

PoolReady == pc = "start_capturing" \/ pc = "mainloop" \/ InMainloop
             \/ pc = "stop_capturing"

Pool == 0 .. (n_buffers - 1)

(***************************************************************************)
(* C1: mainloop returns only after exactly frame_count read_frame calls    *)
(* have returned 1: while the loop runs, the remaining-frame counter plus  *)
(* the number of calls that returned 1 is frame_count (one more between a  *)
(* return of 1 and the decrement that follows it), whatever transient      *)
(* outcomes came in between; once mainloop has returned, the counter is 0  *)
(* and frame_count calls have returned 1.                                  *)
(***************************************************************************)
C1_ExactFrameBudget ==
    /\ InMainloop =>
         count + hist.ok =
            frame_count + (IF pc = "after_read_frame" /\ rf_ret = 1 THEN 1 ELSE 0)
    /\ InMainloop /\ pc # "after_read_frame" => count > 0
    /\ MainloopReturned => count = 0 /\ hist.ok = frame_count

\* mainloop has returned after the whole budget.
C1_Witness ==
    /\ pc = "stop_capturing"
    /\ hist.ok = frame_count
    /\ hist.dq = frame_count
    /\ count = 0

(***************************************************************************)
(* C2: in every state the indices the driver owns (Queued) and the indices *)
(* the application holds (Filled) are disjoint, and both lie in            *)
(* 0 .. n_buffers-1.                                                       *)
(***************************************************************************)
C2_OwnershipDisjoint ==
    /\ Queued \cap Filled = {}
    /\ Queued \subseteq Pool
    /\ Filled \subseteq Pool

\* The application holds one buffer while the driver owns the others.
C2_Witness ==
    /\ Filled # {}
    /\ Queued # {}
    /\ Queued \cup Filled = Pool

(***************************************************************************)
(* C3: a dequeued buffer is requeued exactly once, with the same index,    *)
(* and only after process_image has returned: at most one dequeue is       *)
(* outstanding, the outstanding one is buf.index, the requeue step is      *)
(* reached only with processing finished, and when read_frame has returned *)
(* 1 every dequeue has been matched by a requeue and nothing is held.      *)
(***************************************************************************)
C3_RequeueAfterProcessing ==
    /\ hist.dq - hist.rq \in {0, 1}
    /\ hist.dq - hist.rq = 1 => Filled = {buf.index}
    /\ hist.dq - hist.rq = 0 => Filled = {}
    /\ pc \in {"process_image", "dump_ppm", "dump_write", "dump_check"} =>
          /\ ~hist.processed
          /\ buf.index \in Filled
    /\ pc = "requeue" => hist.processed /\ buf.index \in Filled
    /\ pc = "after_read_frame" /\ rf_ret = 1 =>
          /\ hist.rq = hist.dq
          /\ hist.rq = hist.ok
          /\ buf.index \in Queued

\* read_frame has returned 1 for a second frame.
C3_Witness ==
    /\ pc = "after_read_frame"
    /\ rf_ret = 1
    /\ hist.rq = 2
    /\ hist.processed

(***************************************************************************)
(* C4: when select returns 0 the next step ends the process with           *)
(* EXIT_FAILURE and changes nothing else: no dequeue, no file, no counter; *)
(* and an ended process takes no further step.                             *)
(***************************************************************************)
C4_TimeoutIsFatal ==
    /\ [][(pc = "select_check" /\ r.ret = 0) =>
            /\ pc' = "exited"
            /\ exit_status' = <<EXIT_FAILURE>>
            /\ UNCHANGED <<count, framecnt, files, Queued, Filled, buf, hist,
                           dump>>]_vars
    /\ [][pc # "exited"]_vars

\* The process has ended on a timeout after a frame was written.
C4_Witness ==
    /\ pc = "exited"
    /\ streaming
    /\ r.ret = 0
    /\ exit_status = <<EXIT_FAILURE>>
    /\ hist.ok = 1

(***************************************************************************)
(* C5: init_mmap ends the process with EXIT_FAILURE when the device grants *)
(* fewer than 2 buffers, with nothing mapped or enqueued; when it goes on, *)
(* at least 2 were granted, and once its loop is over n_buffers is the     *)
(* granted count and exactly the indices 0 .. n_buffers-1 are mapped.      *)
(***************************************************************************)
C5_MinimumGrant ==
    /\ pc = "init_mmap_loop" =>
          /\ req_count >= 2
          /\ n_buffers <= req_count
          /\ mapped = Pool
    /\ PoolReady =>
          /\ req_count >= 2
          /\ n_buffers = req_count
          /\ mapped = Pool
    /\ req_count < 2 =>
          /\ mapped = {}
          /\ Queued = {}
          /\ n_buffers = 0
          /\ pc \in {"open_device", "init_device", "init_mmap", "exited"}
          /\ pc = "exited" => exit_status = <<EXIT_FAILURE>>

\* The device granted one buffer and the process has ended.
C5_Witness ==
    /\ pc = "exited"
    /\ req_count = 1
    /\ exit_status = <<EXIT_FAILURE>>
    /\ mapped = {}

\* The device granted fewer buffers than asked for and the pool is complete.
C5_WitnessGranted ==
    /\ pc = "start_capturing"
    /\ req_count >= 2
    /\ req_count < REQ_COUNT
    /\ n_buffers = req_count
    /\ mapped = Pool

(***************************************************************************)
(* C6: the application never enqueues an index it does not hold.  Every    *)
(* successful VIDIOC_QBUF of read_frame moves exactly one index out of     *)
(* Filled into Queued, an index the driver did not own; every successful   *)
(* VIDIOC_QBUF of start_capturing adds one index that was neither Queued   *)
(* nor Filled; and no other step adds to Queued.                           *)
(***************************************************************************)
C6_RequeueOnlyHeld ==
    /\ [][(pc = "requeue" /\ pc' = "after_read_frame") =>
            \E idx \in Filled :
               /\ idx \notin Queued
               /\ Queued' = Queued \cup {idx}
               /\ Filled' = Filled \ {idx}]_vars
    /\ [][(pc = "start_capturing" /\ i' # i) =>
            /\ i \notin Queued \cup Filled
            /\ Queued' = Queued \cup {i}
            /\ Filled' = Filled]_vars
    /\ [][~(Queued' \subseteq Queued) =>
            pc \in {"requeue", "start_capturing"}]_vars

\* A requeue has happened and the driver owns the whole pool again.
C6_Witness ==
    /\ hist.rq >= 1
    /\ pc = "after_read_frame"
    /\ Queued = Pool
    /\ Filled = {}

(***************************************************************************)
(* C7: for an input of whole 4-byte groups the conversion stores exactly   *)
(* size*6/4 bytes, 6 for each group and 1.5 times the input, at the        *)
(* indices 0 .. size*6/4 - 1, which is the count handed to dump_ppm; and   *)
(* every byte stored lies in 0..255.                                       *)
(***************************************************************************)
C7_ConversionSize ==
    /\ \A j \in DOMAIN conv.bigbuffer : conv.bigbuffer[j] \in 0..255
    /\ (conv.pc = "done" /\ conv.size % 4 = 0) =>
          /\ DOMAIN conv.bigbuffer = 0 .. (conv.newsize - 1)
          /\ conv.newi = conv.newsize
          /\ conv.newsize = 6 * (conv.size \div 4)
          /\ 2 * conv.newsize = 3 * conv.size

\* Two groups were converted, with bytes clipped at both ends of the range.
C7_Witness ==
    /\ conv.pc = "done"
    /\ conv.size = 8
    /\ Cardinality(DOMAIN conv.bigbuffer) = 12
    /\ \E j \in DOMAIN conv.bigbuffer : conv.bigbuffer[j] = 0
    /\ \E j \in DOMAIN conv.bigbuffer : conv.bigbuffer[j] = 255
    /\ \E j \in DOMAIN conv.bigbuffer : conv.bigbuffer[j] \in 1..254

(***************************************************************************)
(* C8: the width and height in the header of every output file are the     *)
(* width and height of the negotiated format.                              *)
(***************************************************************************)
C8_HeaderMatchesNegotiated ==
    \A t \in DOMAIN files :
        files[t].header_written =>
            /\ files[t].header.width = fmt.width
            /\ files[t].header.height = fmt.height

\* The file of path t is no longer being written by dump_ppm.
FileClosed(t) ==
    ~(pc \in {"dump_write", "dump_check"} /\ CString(ppm_dumpname) = t)

(***************************************************************************)
(* C9: the payload of every finished output file is width*height*3 bytes   *)
(* of the negotiated geometry, whatever bytesused the driver reported.     *)
(***************************************************************************)
C9_PayloadIsWidthHeight3 ==
    \A t \in DOMAIN files :
        FileClosed(t) => files[t].payload = fmt.width * fmt.height * 3

(***************************************************************************)
(* C10: in dump_ppm, when a write returned an error or zero bytes and the  *)
(* payload is still incomplete, the next step ends the process with        *)
(* EXIT_FAILURE.                                                           *)
(***************************************************************************)
C10_NoProgressIsFatal ==
    [][(pc = "dump_check" /\ dump.written <= 0 /\ dump.total < dump.size) =>
          /\ pc' = "exited"
          /\ exit_status' = <<EXIT_FAILURE>>]_vars

(***************************************************************************)
(* C11: every read_frame call that returned 1 has created or overwritten   *)
(* one output file of its own: when read_frame has returned 1 the number   *)
(* of distinct output files is the number of calls that returned 1, and    *)
(* once mainloop has returned there are frame_count output files.          *)
(***************************************************************************)
C11_OneFilePerFrame ==
    /\ (pc = "after_read_frame" /\ rf_ret = 1) =>
          Cardinality(DOMAIN files) = hist.ok
    /\ (MainloopReturned \/ exit_status = <<EXIT_SUCCESS>>) =>
          Cardinality(DOMAIN files) = frame_count

\* The frame budget was completed and the shutdown went through.
BudgetCompletedAndShutDown ==
    /\ pc = "exited"
    /\ hist.ok = frame_count
    /\ ~streaming
    /\ mapped = {}
    /\ fd = NO_FD

\* A fatal condition was met in the run: a diagnosed failure of a system
\* call or a test, or a payload write that made no progress.
FatalConditionMet == stderr # "" \/ hist.noprogress

(***************************************************************************)
(* C12: the process exits with status 0 exactly when the frame budget was  *)
(* completed and the shutdown went through, and a run in which a fatal     *)
(* condition was met (at startup, while streaming, in the teardown) never  *)
(* ends with status 0.                                                     *)
(***************************************************************************)
C12_ExitStatus ==
    /\ exit_status = <<EXIT_SUCCESS>> <=> BudgetCompletedAndShutDown
    /\ FatalConditionMet => exit_status # <<EXIT_SUCCESS>>

(***************************************************************************)
(* C13: the path dump_ppm opens for the k-th processed frame is the        *)
(* directory and base name of the template, "frames/test", then k as 8     *)
(* zero-padded decimal digits, then ".ppm": every output file has that     *)
(* path for its tag, so all paths share the directory prefix and differ    *)
(* between frames.                                                         *)
(***************************************************************************)
C13_PathOfFrame ==
    \A t \in DOMAIN files :
        /\ files[t].tag \in 1 .. frame_count
        /\ t = <<"f", "r", "a", "m", "e", "s", "/", "t", "e", "s", "t">>
                 \o Format08d(files[t].tag)
                 \o <<".", "p", "p", "m">>
        /\ \A u \in DOMAIN files : files[u].tag # files[t].tag => u # t

\* The six bytes stored for the k-th group (k from 0) of the input.
StoredGroup(k) == [j \in 1 .. 6 |-> conv.bigbuffer[6 * k + j - 1]]

(***************************************************************************)
(* C14: for every 4-byte group (y0, u, y1, v) the conversion has gone      *)
(* through, the six bytes stored are the reference transform of (y0, u, v) *)
(* followed by that of (y1, u, v), the chroma pair shared; a pixel         *)
(* (16, 128, 128) comes out as (0, 0, 0) and a pixel (235, 128, 128) as    *)
(* (255, 255, 255).  The reference transform is stated apart from the      *)
(* code's arithmetic: the floor of x / 256 as the exact quotient left when *)
(* the non-negative remainder is taken off, the saturation to 0 .. 255.    *)
(***************************************************************************)
C14_ReferenceTransform ==
    LET floor256(x) == (x - (x % 256)) \div 256
        clamp8(x) == IF x \in 0 .. 255 THEN x ELSE IF x > 255 THEN 255 ELSE 0
        reference(y, u, v) ==
            LET c == y - 16
                d == u - 128
                e == v - 128
            IN  << clamp8(floor256(298 * c + 409 * e + 128)),
                   clamp8(floor256(298 * c - 100 * d - 208 * e + 128)),
                   clamp8(floor256(298 * c + 516 * d + 128)) >>
    IN  \A k \in 0 .. ((conv.i \div 4) - 1) :
            LET y0 == conv.p[4 * k + 1]
                u  == conv.p[4 * k + 2]
                y1 == conv.p[4 * k + 3]
                v  == conv.p[4 * k + 4]
                out == StoredGroup(k)
            IN  /\ out = reference(y0, u, v) \o reference(y1, u, v)
                /\ (y0 = 16 /\ u = 128 /\ v = 128) =>
                      SubSeq(out, 1, 3) = <<0, 0, 0>>
                /\ (y1 = 235 /\ u = 128 /\ v = 128) =>
                      SubSeq(out, 4, 6) = <<255, 255, 255>>

\* A buffer of two groups was converted whose first group is a black pixel
\* and a white pixel with neutral chroma and whose second has extreme chroma.
C14_Witness ==
    /\ conv.pc = "done"
    /\ conv.size = 8
    /\ SubSeq(conv.p, 1, 4) = <<16, 128, 235, 128>>
    /\ StoredGroup(0) = <<0, 0, 0, 255, 255, 255>>
    /\ conv.p[6] = 255
    /\ conv.p[8] = 0

\* The errno values of VIDIOC_DQBUF on which read_frame returns 0.
TransientDqbuf == {"EAGAIN", "EIO"}

(***************************************************************************)
(* C15: a VIDIOC_DQBUF that reports EAGAIN or EIO changes nothing.  The    *)
(* step in which read_frame meets it returns 0 to mainloop and leaves the  *)
(* remaining-frame counter, framecnt, both ownership sets and the output   *)
(* files as they were; the step mainloop takes on that return goes back to *)
(* select with the same left unchanged and no pacing delay applied.        *)
(***************************************************************************)
C15_TransientChangesNothing ==
    /\ [][(pc = "read_frame" /\ hist'.dqerr \in TransientDqbuf) =>
            /\ pc' = "after_read_frame"
            /\ rf_ret' = 0
            /\ hist'.sleeps = hist.sleeps
            /\ UNCHANGED <<count, framecnt, Queued, Filled, files,
                           exit_status>>]_vars
    /\ [][(pc = "after_read_frame" /\ hist.dqerr \in TransientDqbuf) =>
            /\ pc' = "select"
            /\ hist'.sleeps = hist.sleeps
            /\ UNCHANGED <<count, framecnt, Queued, Filled, files,
                           exit_status>>]_vars

\* After a first frame read_frame has returned 0 on EIO, with one frame
\* still to go.
C15_Witness ==
    /\ pc = "after_read_frame"
    /\ hist.dqerr = "EIO"
    /\ rf_ret = 0
    /\ hist.ok = 1
    /\ count = frame_count - 1

(***************************************************************************)
(* C16: when select fails with EINTR the wait is retried: the next step    *)
(* goes back to select with no dequeue attempted and no counter, buffer or *)
(* file changed; every select call waits on the device descriptor with the *)
(* full timeout, whatever an earlier call left in tv; when select fails    *)
(* with another errno the next step ends the process with EXIT_FAILURE.    *)
(***************************************************************************)
C16_InterruptedWaitRetried ==
    /\ [][(pc = "select_check" /\ r.ret = -1 /\ r.errno = "EINTR") =>
            /\ pc' = "select"
            /\ hist'.dq = hist.dq
            /\ UNCHANGED <<fd, count, framecnt, Queued, Filled, files, buf,
                           rf_ret, exit_status>>]_vars
    /\ [][pc = "select" =>
            /\ pc' = "select_check"
            /\ r'.fds = {fd}
            /\ r'.timeout.tv_sec = SELECT_TIMEOUT_SEC
            /\ r'.timeout.tv_usec = 0]_vars
    /\ [][(pc = "select_check" /\ r.ret = -1 /\ r.errno # "EINTR") =>
            /\ pc' = "exited"
            /\ exit_status' = <<EXIT_FAILURE>>]_vars

\* After a first frame a wait was interrupted part of the way through its
\* timeout and mainloop is at select again.
C16_Witness ==
    /\ pc = "select"
    /\ r.ret = -1
    /\ r.errno = "EINTR"
    /\ r.tv.tv_sec < SELECT_TIMEOUT_SEC
    /\ hist.ok = 1

(***************************************************************************)
(* C17: a fatal condition ends the process at once.  Whenever a failure    *)
(* has been diagnosed on stderr (VIDIOC_REQBUFS, VIDIOC_QUERYBUF, mmap,    *)
(* VIDIOC_QBUF, VIDIOC_STREAMON, VIDIOC_STREAMOFF, munmap, VIDIOC_DQBUF,   *)
(* select, select timeout, ...) the process has ended with a non-zero      *)
(* status; the step that meets the failure is the step that ends the       *)
(* process, and it enqueues, dequeues, unmaps, stops and writes nothing;   *)
(* an ended process takes no step.                                         *)
(***************************************************************************)
C17_FatalEndsAtOnce ==
    /\ [](stderr # "" =>
            /\ pc = "exited"
            /\ exit_status # <<>>
            /\ exit_status # <<EXIT_SUCCESS>>)
    /\ [][stderr' # stderr =>
            /\ pc' = "exited"
            /\ UNCHANGED <<fd, mapped, n_buffers, streaming, files,
                           ppm_dumpname, dump, write_faults, count,
                           framecnt>>
            /\ stderr' # "Assertion failed" => UNCHANGED <<Queued, Filled>>]_vars
    /\ [][pc = "exited" => FALSE]_vars

\* The requeue of read_frame failed while streaming: the process has ended
\* with the buffer still held, the pool still mapped, the stream still on.
C17_Witness ==
    /\ pc = "exited"
    /\ stderr = "VIDIOC_QBUF"
    /\ exit_status = <<EXIT_FAILURE>>
    /\ streaming
    /\ Filled # {}
    /\ mapped = Pool
    /\ fd # NO_FD
    /\ hist.ok = 1

\* The positions that may follow a position of the frame cycle.
FrameCycleAfter(at) ==
    CASE at = "select"           -> {"select_check"}
      [] at = "select_check"     -> {"select", "read_frame", "exited"}
      [] at = "read_frame"       -> {"process_image", "after_read_frame",
                                     "exited"}
      [] at = "process_image"    -> {"dump_ppm", "requeue"}
      [] at = "dump_ppm"         -> {"dump_write"}
      [] at = "dump_write"       -> {"dump_check"}
      [] at = "dump_check"       -> {"dump_write", "requeue"}
      [] at = "requeue"          -> {"after_read_frame", "exited"}
      [] at = "after_read_frame" -> {"select", "stop_capturing"}

(***************************************************************************)
(* C18: a frame cycle runs in the order wait, dequeue, convert, write,     *)
(* requeue, pacing delay and decrement, and only then the next wait.       *)
(* Control moves along that order only; a dequeue happens only after a     *)
(* wait that reported the descriptor ready; the pacing delay comes in the  *)
(* step that decrements the counter, after a read_frame that returned 1,   *)
(* once for each such frame; at the wait all dequeues, requeues, delays    *)
(* and frames counted are level; the application holds at most one buffer  *)
(* at any time and none while it waits.                                    *)
(***************************************************************************)
C18_FrameCycleOrder ==
    /\ [](/\ Cardinality(Filled) <= 1
          /\ pc \in {"select", "select_check", "read_frame"} =>
                /\ Filled = {}
                /\ hist.dq = hist.rq
                /\ hist.rq = hist.ok
                /\ hist.sleeps = hist.ok
                /\ framecnt = hist.dq
                /\ count = frame_count - hist.sleeps
          /\ pc = "process_image" =>
                /\ hist.dq = hist.rq + 1
                /\ framecnt = hist.rq
          /\ pc \in {"dump_ppm", "dump_write", "dump_check", "requeue"} =>
                /\ hist.dq = hist.rq + 1
                /\ framecnt = hist.dq
                /\ hist.sleeps = hist.rq
          /\ pc = "requeue" => hist.processed
          /\ (pc = "after_read_frame" /\ rf_ret = 1) =>
                /\ hist.rq = hist.dq
                /\ hist.sleeps = hist.rq - 1
          /\ MainloopReturned => hist.sleeps = frame_count)
    /\ [][InMainloop => pc' \in FrameCycleAfter(pc)]_vars
    /\ [][(pc = "select_check" /\ pc' = "read_frame") => r.ret > 0]_vars
    /\ [][hist'.dq # hist.dq => pc = "read_frame"]_vars
    /\ [][hist'.sleeps # hist.sleeps =>
            /\ pc = "after_read_frame"
            /\ rf_ret = 1
            /\ hist'.sleeps = hist.sleeps + 1
            /\ count' = count - 1]_vars

\* The wait of the second cycle has started: the first frame was dequeued,
\* written, requeued, paced and counted, no buffer is held.
C18_Witness ==
    /\ pc = "select"
    /\ hist.dq = 1
    /\ hist.rq = 1
    /\ hist.sleeps = 1
    /\ count = frame_count - 1
    /\ Cardinality(DOMAIN files) = 1
    /\ Filled = {}

(***************************************************************************)
(* C19: start_capturing enqueues the indices 0 .. n_buffers-1 once each    *)
(* and in index order: while its loop runs, the indices below i are the    *)
(* ones Queued, and every enqueue adds index i, not Queued before, and     *)
(* moves i on by one.  VIDIOC_STREAMON is issued only with the whole pool  *)
(* Queued; no select and no dequeue happens while the stream is off; and   *)
(* when an enqueue of start_capturing fails the stream is never turned on. *)
(***************************************************************************)
C19_QueueAllThenStreamOn ==
    /\ [](/\ pc = "start_capturing" =>
                /\ Queued = 0 .. (i - 1)
                /\ i <= n_buffers
                /\ Filled = {}
                /\ ~streaming
          /\ streaming => Queued \cup Filled = Pool
          /\ (pc = "mainloop" \/ InMainloop) => streaming
          /\ (stderr = "VIDIOC_QBUF" /\ hist.dq = 0) => ~streaming)
    /\ [][(pc = "start_capturing" /\ Queued' # Queued) =>
            /\ i \notin Queued
            /\ Queued' = Queued \cup {i}
            /\ i' = i + 1]_vars
    /\ [][(~streaming /\ streaming') =>
            /\ pc = "start_capturing"
            /\ Queued = Pool
            /\ hist.dq = 0
            /\ r = NoSelect]_vars
    /\ [][(r' # r \/ hist'.dq # hist.dq) => streaming]_vars

\* VIDIOC_STREAMON has succeeded for a pool of the largest grant.
C19_Witness ==
    /\ pc = "mainloop"
    /\ streaming
    /\ n_buffers = MaxGrant
    /\ i = n_buffers
    /\ Queued = Pool
    /\ hist.dq = 0

\* The number a sequence of decimal digits spells.
DigitValue(c) ==
    CASE c = "0" -> 0 [] c = "1" -> 1 [] c = "2" -> 2 [] c = "3" -> 3
      [] c = "4" -> 4 [] c = "5" -> 5 [] c = "6" -> 6 [] c = "7" -> 7
      [] c = "8" -> 8 [] c = "9" -> 9

RECURSIVE DecimalValue(_)
DecimalValue(digits) ==
    IF digits = <<>> THEN 0
    ELSE 10 * DecimalValue(SubSeq(digits, 1, Len(digits) - 1))
           + DigitValue(digits[Len(digits)])

\* The numeric suffix of a path: the 8 characters in front of ".ppm".
NumericSuffix(path) == SubSeq(path, Len(path) - 11, Len(path) - 4)

(***************************************************************************)
(* C20: framecnt is 0 before the first frame, changes only in              *)
(* process_image and there by exactly +1, so it never decreases and is     *)
(* never reset; it is the number of frames dequeued and handed to          *)
(* process_image; while mainloop is between frames (at the wait or at the  *)
(* dequeue attempt) framecnt = frame_count - count; and while the k-th     *)
(* processed frame is written, the path opened spells k in its 8 digits    *)
(* and the file under that path carries the tag k.                         *)
(***************************************************************************)
C20_FrameCounter ==
    /\ [](/\ pc \in {"open_device", "init_device", "init_mmap",
                     "init_mmap_loop", "start_capturing", "mainloop"} =>
                framecnt = 0
          /\ framecnt = hist.dq - (IF pc = "process_image" THEN 1 ELSE 0)
          /\ pc \in {"select", "select_check", "read_frame"} =>
                framecnt = frame_count - count
          /\ pc \in {"dump_ppm", "dump_write", "dump_check"} =>
                dump.tag = hist.dq
          /\ pc \in {"dump_write", "dump_check"} =>
                LET path == CString(ppm_dumpname)
                IN  /\ Len(NumericSuffix(path)) = 8
                    /\ DecimalValue(NumericSuffix(path)) = hist.dq
                    /\ dump.dumpfd # NO_FD =>
                          /\ path \in DOMAIN files
                          /\ files[path].tag = hist.dq
          /\ \A t \in DOMAIN files : files[t].tag \in 1 .. framecnt)
    /\ [][framecnt' # framecnt =>
            /\ pc = "process_image"
            /\ framecnt' = framecnt + 1]_vars

\* The second frame is being written under the number 2, with the first
\* frame's file in place under the number 1.
C20_Witness ==
    /\ pc = "dump_check"
    /\ framecnt = 2
    /\ dump.tag = 2
    /\ count = frame_count - 1
    /\ \E t \in DOMAIN files : DecimalValue(NumericSuffix(t)) = 1
    /\ \E t \in DOMAIN files : DecimalValue(NumericSuffix(t)) = 2

\* init_device has completed: fmt holds the negotiated format.
FormatNegotiated == pc \notin {"open_device", "init_device", "conversion"}
                    /\ fmt # CLEAR_fmt

(***************************************************************************)
(* C21: once init_device has completed with a YUYV (2 bytes per pixel) or  *)
(* RGB24 (3 bytes per pixel) format, the stored bytesperline is at least   *)
(* width times the bytes per pixel of the format and the stored sizeimage  *)
(* is at least bytesperline * height; and the descriptor is not modified   *)
(* after init_device.                                                      *)
(***************************************************************************)
C21_StrideAndSize ==
    /\ [](FormatNegotiated /\ fmt.pixelformat \in {"YUYV", "RGB24"} =>
            /\ fmt.bytesperline >= fmt.width * BytesPerPixel(fmt.pixelformat)
            /\ fmt.sizeimage >= fmt.bytesperline * fmt.height)
    /\ [][fmt' # fmt => pc = "init_device"]_vars

RECURSIVE InOrderFrom(_, _)
\* The segments, one after the other, start at offset at and leave no gap
\* and no overlap: the offset behind the last one, or -1 when they do not.
InOrderFrom(segments, at) ==
    IF segments = <<>> THEN at
    ELSE IF Head(segments).from # at THEN -1
    ELSE InOrderFrom(Tail(segments), at + Head(segments).len)

(***************************************************************************)
(* C22: when dump_ppm has returned and every write of the run made         *)
(* progress, the bytes in the file behind the header are the size payload  *)
(* bytes, each once and in order: the pieces written start at offset 0 of  *)
(* the payload, each piece starts where the one before ended, and they end *)
(* at offset size.                                                         *)
(***************************************************************************)
C22_PayloadOnceInOrder ==
    (/\ pc = "requeue"
     /\ fmt.pixelformat \in {"YUYV", "RGB24"}
     /\ ~hist.noprogress) =>
        /\ CString(ppm_dumpname) \in DOMAIN files
        /\ InOrderFrom(files[CString(ppm_dumpname)].segments, 0) = dump.size

(***************************************************************************)
(* C23: a device that stops delivering frames cannot hang the process.     *)
(* From every wait of the acquisition loop (frames still to go, k frames   *)
(* dequeued so far): if no further frame is ever dequeued, the process     *)
(* eventually ends with a failure status; that is, each such wait leads to *)
(* a further dequeue or to the fatal end.                                  *)
(***************************************************************************)
C23_NoHang ==
    \A k \in 0 .. (frame_count - 1) :
        (pc = "select" /\ hist.dq = k) ~>
            \/ hist.dq # k
            \/ (pc = "exited" /\ exit_status # <<EXIT_SUCCESS>>)

\* The buffers uninit_device has still to unmap: indices i .. n_buffers-1.
StillToUnmap == i .. (n_buffers - 1)

(***************************************************************************)
(* C24: the clean shutdown is stream-off, then the unmapping of every      *)
(* buffer, then the close of the device.  While uninit_device runs the     *)
(* stream is off, the application holds no Filled buffer and the mapped    *)
(* buffers are exactly those the loop has not reached yet; every step that *)
(* unmaps removes exactly the buffer at the loop index, which was mapped,  *)
(* and moves the index on (each buffer is unmapped once); the device is    *)
(* closed only when nothing is mapped; a failing munmap ends the process   *)
(* with a failure status, the buffers from the failing one on still mapped *)
(* and the device still open.                                              *)
(***************************************************************************)
C24_ShutdownOrder ==
    /\ [](pc = "uninit_device" =>
            /\ ~streaming
            /\ Filled = {}
            /\ i \in 0 .. n_buffers
            /\ mapped = StillToUnmap
            /\ fd # NO_FD)
    /\ [](pc = "close_device" =>
            ~streaming /\ mapped = {} /\ i = n_buffers /\ fd # NO_FD)
    /\ [](pc = "exited" /\ exit_status = <<EXIT_SUCCESS>> =>
            ~streaming /\ mapped = {} /\ fd = NO_FD)
    /\ [](pc = "exited" /\ stderr = "munmap" =>
            /\ exit_status = <<EXIT_FAILURE>>
            /\ i < n_buffers
            /\ mapped = StillToUnmap
            /\ fd # NO_FD)
    /\ [][(\E b \in mapped : b \notin mapped') =>
            /\ pc = "uninit_device"
            /\ ~streaming
            /\ Filled = {}
            /\ mapped \ mapped' = {i}
            /\ i' = i + 1]_vars
    /\ [][pc = "stop_capturing" /\ pc' # "exited" =>
            streaming /\ ~streaming' /\ mapped' = Pool /\ pc' = "uninit_device"]_vars
    /\ [][fd # NO_FD /\ fd' = NO_FD =>
            pc = "close_device" /\ mapped = {} /\ ~streaming]_vars

\* The second munmap failed: buffer 0 is unmapped, the others are not, the
\* device is open.
C24_Witness ==
    /\ pc = "exited"
    /\ stderr = "munmap"
    /\ i = 1
    /\ n_buffers = MaxGrant
    /\ mapped = 1 .. (MaxGrant - 1)
    /\ fd # NO_FD

(***************************************************************************)
(* C25: the memory the processing of a dequeued buffer touches.  The       *)
(* buffer in process is buffers[idx] with idx < n_buffers; every offset    *)
(* of the input the conversion reads is below size, the byte count it was  *)
(* given, also when size is not a multiple of 4; every index of the        *)
(* scratch buffer it stores to is below the capacity of the scratch        *)
(* buffer.                                                                 *)
(***************************************************************************)
C25_AccessesInBounds ==
    /\ pc \in {"process_image", "dump_open", "dump_write", "dump_check",
               "requeue"} =>
          buf.index \in Pool /\ buf.index \in mapped
    /\ \A o \in conv.reads : o >= 0 /\ o < conv.size
    /\ \A j \in DOMAIN conv.bigbuffer : j >= 0 /\ j < BIGBUFFER_SIZE

====
